---- MODULE Spec2Model ----
(***************************************************************************)
(* Model of the occupancy-grid planner RoadFinder (src/testy.py) and of    *)
(* the GPIO output handler UpdateOutputHandler                             *)
(* (src/update_output_handler.py).                                         *)
(*                                                                         *)
(* Cells are pairs <<x, y>> with 0-based coordinates, as in the source.    *)
(* Vertex indices are 0-based, and -1 is the "no predecessor" mark.        *)
(* Distances are IEEE-754 doubles.  Every finite distance the planner can  *)
(* hold is 0 or a value in [1, 32), hence an integer multiple of 2^-52; a  *)
(* double is modelled as that multiple, N = hi * 2^28 + lo, written        *)
(* <<hi, lo>>, and addition rounds to nearest, ties to even, at the        *)
(* precision of the result's binade.                                       *)
(***************************************************************************)
EXTENDS Integers, Sequences, FiniteSets, TLC

\* Bounds of the model.
MaxRows == 2
MaxCols == 3
MaxCmds == 3
MaxChanges == 1

VARIABLES
  call_args,       \* arguments of a pending RoadFinder(...) call, <<>> once consumed
  lidar_map,       \* self.lidar_map
  starting_point,  \* self.starting_point
  ending_point,    \* self.ending_point
  path,            \* self.path
  pc,              \* position of the planner's control
  graph,           \* locals of find_path / __bellman_ford / __relax_edges
  keys,
  edge_weights,
  distances,
  predecessor,
  pass,            \* index of the outer loop of __relax_edges
  edge,            \* position in the two inner loops of __relax_edges
  outcome,         \* how the last call ended
  result,          \* value returned by the last find_path call
  changes,         \* number of attribute changes made by the caller
  hpc,             \* life cycle of the UpdateOutputHandler
  gpio_mode,       \* GPIO numbering mode
  pin_dir,         \* direction configured for each pin
  pin_level,       \* level driven on each pin
  diag,            \* last diagnostic printed by update_output
  issued           \* commands passed to update_output so far

planner_vars == <<call_args, lidar_map, starting_point, ending_point, path, pc,
                  graph, keys, edge_weights, distances, predecessor, pass,
                  edge, outcome, result, changes>>
handler_vars == <<hpc, gpio_mode, pin_dir, pin_level, diag, issued>>
vars == <<planner_vars, handler_vars>>

----------------------------------------------------------------------------
(* IEEE-754 double arithmetic on the values the planner computes.          *)

Limb == 2^28

Zero == <<0, 0>>
One == <<2^24, 0>>
\* math.sqrt(2) = 6369051672525773 * 2^-52 = 0x16A09E667F3BCD * 2^-52
Sqrt2 == <<23726566, 109001677>>
\* np.inf
Inf == <<2^30, 0>>

\* x < y on doubles
FLess(x, y) == x[1] < y[1] \/ (x[1] = y[1] /\ x[2] < y[2])

\* spacing of doubles, in units of 2^-52, in the binade of hi * 2^28
Ulp(hi) ==
  IF hi < 2^25 THEN 1
  ELSE IF hi < 2^26 THEN 2
  ELSE IF hi < 2^27 THEN 4
  ELSE IF hi < 2^28 THEN 8
  ELSE 16

\* x + y on doubles: exact sum, then round to nearest, ties to even
FAdd(x, y) ==
  IF x = Inf \/ y = Inf THEN Inf
  ELSE LET lo0 == x[2] + y[2]
           hi0 == x[1] + y[1] + (lo0 \div Limb)
           lo1 == lo0 % Limb
           q == Ulp(hi0)
           r == lo1 % q
           down == lo1 - r
           up == 2 * r > q \/ (2 * r = q /\ (down \div q) % 2 = 1)
           lo2 == IF up THEN down + q ELSE down
       IN <<hi0 + (lo2 \div Limb), lo2 % Limb>>

----------------------------------------------------------------------------
(* RoadFinder: graph construction.                                         *)

NumRows(m) == Len(m)
NumCols(m) == Len(m[1])

\* the value of self.lidar_map[x][y] for in-range x, y
CellAt(m, x, y) == m[x + 1][y + 1]

\* all cells in the order of the two nested enumerate() loops
RowMajor(m) ==
  [k \in 1..(NumRows(m) * NumCols(m)) |->
     <<(k - 1) \div NumCols(m), (k - 1) % NumCols(m)>>]

is_path_clear(m, start, dx, dy) ==
  LET nx == start[1] + dx
      ny == start[2] + dy
  IN IF ~(0 <= nx /\ nx < NumRows(m) /\ 0 <= ny /\ ny < NumCols(m))
     THEN FALSE
     ELSE CellAt(m, nx, ny) = 0

\* keys = [(i, j) ... if not val]
Keys(m) ==
  LET free(c) == CellAt(m, c[1], c[2]) = 0
  IN SelectSeq(RowMajor(m), free)

\* (nx, ny) in key_to_index
InKeys(ks, c) == \E i \in 1..Len(ks) : ks[i] = c

\* key_to_index[c], equally keys.index(c)
key_to_index(ks, c) == (CHOOSE i \in 1..Len(ks) : ks[i] = c) - 1

\* keys[idx]
KeyAt(ks, idx) == ks[idx + 1]

neighbors ==
  << <<-1, 0>>, <<1, 0>>, <<0, -1>>, <<0, 1>>,
     <<-1, -1>>, <<-1, 1>>, <<1, -1>>, <<1, 1>> >>

Abs(n) == IF n < 0 THEN -n ELSE n

\* every move weighs 1
MoveWeightUnit(dx, dy) == One

\* weight stored for the move (dx, dy)
MoveWeight(dx, dy) == IF Abs(dx) + Abs(dy) = 1 THEN One ELSE Sqrt2

\* a diagonal offset is refused when one of its two corner cells is blocked
EdgeAcceptedNoCornerCut(m, ks, c, d) ==
  /\ InKeys(ks, <<c[1] + d[1], c[2] + d[2]>>)
  /\ is_path_clear(m, c, d[1], d[2])
  /\ is_path_clear(m, c, d[1], 0)
  /\ is_path_clear(m, c, 0, d[2])

\* the condition under which the offset d from cell c becomes an edge
EdgeAccepted(m, ks, c, d) ==
  InKeys(ks, <<c[1] + d[1], c[2] + d[2]>>) /\ is_path_clear(m, c, d[1], d[2])

\* graph[idx] after the loop over neighbors
Adjacency(m, ks, c) ==
  LET ok(d) == EdgeAccepted(m, ks, c, d)
      sel == SelectSeq(neighbors, ok)
  IN [i \in 1..Len(sel) |->
        key_to_index(ks, <<c[1] + sel[i][1], c[2] + sel[i][2]>>)]

BuildGraph(m, ks) ==
  [idx \in 0..(Len(ks) - 1) |-> Adjacency(m, ks, KeyAt(ks, idx))]

\* edge_weights after the loop: the weight of the offset that leads from u to v
BuildWeights(ks, g) ==
  [e \in {uv \in (DOMAIN g) \X (DOMAIN g) :
            \E i \in 1..Len(g[uv[1]]) : g[uv[1]][i] = uv[2]} |->
     MoveWeight(KeyAt(ks, e[2])[1] - KeyAt(ks, e[1])[1],
                KeyAt(ks, e[2])[2] - KeyAt(ks, e[1])[2])]

----------------------------------------------------------------------------
(* RoadFinder: relaxation and path reconstruction.                         *)

RECURSIVE EdgesFrom(_, _)
EdgesFrom(g, u) ==
  IF u \notin DOMAIN g THEN <<>>
  ELSE [i \in 1..Len(g[u]) |-> <<u, g[u][i]>>] \o EdgesFrom(g, u + 1)

\* the pairs (u, v) in the order "for u in range(num_vertices): for v in graph[u]"
EdgeOrder(g) == EdgesFrom(g, 0)

NumVertices(g) == Cardinality(DOMAIN g)

\* a single pass over the edges
NumPassesOne(g) == IF NumVertices(g) > 1 THEN 1 ELSE 0

\* number of iterations of "for _ in range(num_vertices - 1)"
NumPasses(g) == NumVertices(g) - 1

\* distances = [np.inf] * num_vertices; distances[start_index] = 0
InitDistances(g, s) == [v \in DOMAIN g |-> IF v = s THEN Zero ELSE Inf]

\* predecessor = [-1] * num_vertices
InitPredecessor(g) == [v \in DOMAIN g |-> -1]

\* the comparison written with >= in place of >
RelaxableOnTie(w, d, u, v) == ~FLess(d[v], FAdd(d[u], w[<<u, v>>]))

\* if distances[v] > distances[u] + weight
Relaxable(w, d, u, v) == FLess(FAdd(d[u], w[<<u, v>>]), d[v])

\* the body of the innermost loop of __relax_edges, on distances
RelaxDistances(w, d, u, v) ==
  IF Relaxable(w, d, u, v)
  THEN [d EXCEPT ![v] = FAdd(d[u], w[<<u, v>>])]
  ELSE d

\* the assignment written predecessor[u] = v
RelaxPredecessorSwapped(w, d, p, u, v) ==
  IF Relaxable(w, d, u, v) THEN [p EXCEPT ![u] = v] ELSE p

\* the body of the innermost loop of __relax_edges, on predecessor
RelaxPredecessor(w, d, p, u, v) ==
  IF Relaxable(w, d, u, v) THEN [p EXCEPT ![v] = u] ELSE p

\* path_indices.reverse() left out
ReverseOmitted(s) == s

\* path_indices.reverse()
Reverse(s) == [i \in 1..Len(s) |-> s[Len(s) + 1 - i]]

\* The while loop of __reconstruct_path.  A walk that has followed as many
\* links as there are vertices without meeting start_index or -1 is inside a
\* cycle of predecessor links and never leaves the loop: ended = FALSE.
RECURSIVE Walk(_, _, _, _, _)
Walk(p, start_index, current, path_indices, fuel) ==
  IF current = start_index
  THEN [ended |-> TRUE, value |-> Reverse(Append(path_indices, start_index))]
  ELSE IF fuel = 0
  THEN [ended |-> FALSE, value |-> <<>>]
  ELSE IF p[current] = -1
  THEN [ended |-> TRUE, value |-> <<>>]
  ELSE Walk(p, start_index, p[current], Append(path_indices, current), fuel - 1)

reconstruct_path(p, start_index, end_index) ==
  Walk(p, start_index, end_index, <<>>, Cardinality(DOMAIN p))

----------------------------------------------------------------------------
(* RoadFinder: inputs and operations.                                      *)

Grids ==
  UNION {[1..r -> [1..c -> {0, 1}]] : r \in 1..MaxRows, c \in 1..MaxCols}

\* cells a caller may name, some of them outside every grid
Points == ((0..MaxRows) \X (0..MaxCols)) \cup {<<-1, 0>>, <<0, -1>>}

\* objects passed as map_class: a LidarMap, or an object without 'map'
MapObjects == {[map |-> g] : g \in Grids} \cup {[other |-> 0]}

\* the three calls made by test_road_finder
Scenarios ==
  { << [map |-> << <<0, 0, 0, 0>>, <<0, 1, 1, 0>>, <<0, 0, 0, 0>> >>],
       <<0, 0>>, <<2, 3>> >>,
    << [map |-> << <<0, 0, 0>>, <<0, 1, 1>>, <<0, 0, 0>> >>],
       <<0, 0>>, <<2, 2>> >>,
    << [map |-> << <<0, 1, 0>>, <<0, 0, 0>>, <<0, 0, 0>> >>],
       <<0, 0>>, <<2, 2>> >> }

NoLocals ==
  /\ graph' = <<>>
  /\ keys' = <<>>
  /\ edge_weights' = <<>>
  /\ distances' = <<>>
  /\ predecessor' = <<>>
  /\ pass' = 0
  /\ edge' = 0

InitPlanner ==
  /\ call_args \in (MapObjects \X Points \X Points) \cup Scenarios
  /\ lidar_map = <<>>
  /\ starting_point = <<>>
  /\ ending_point = <<>>
  /\ path = <<>>
  /\ pc = "new"
  /\ graph = <<>>
  /\ keys = <<>>
  /\ edge_weights = <<>>
  /\ distances = <<>>
  /\ predecessor = <<>>
  /\ pass = 0
  /\ edge = 0
  /\ outcome = "none"
  /\ result = <<>>
  /\ changes = 0

\* RoadFinder.__init__
Construct ==
  /\ pc = "new"
  /\ call_args' = <<>>
  /\ IF "map" \notin DOMAIN call_args[1]
     THEN /\ pc' = "failed"
          /\ outcome' = "ValueError: LidarMap class must have a 'map' attribute"
          /\ UNCHANGED <<lidar_map, starting_point, ending_point, path>>
     ELSE /\ pc' = "idle"
          /\ lidar_map' = call_args[1].map
          /\ starting_point' = call_args[2]
          /\ ending_point' = call_args[3]
          /\ path' = <<>>
          /\ outcome' = "none"
  /\ UNCHANGED <<graph, keys, edge_weights, distances, predecessor, pass, edge,
                 result, changes, handler_vars>>

\* find_path up to the return of __create_graph
CreateGraph ==
  /\ pc = "idle"
  /\ result' = <<>>
  /\ IF Keys(lidar_map) = <<>>
     THEN /\ pc' = "idle"
          /\ outcome' = "ValueError: No valid path in the lidar map"
          /\ UNCHANGED <<graph, keys, edge_weights>>
     ELSE /\ pc' = "bellman_ford"
          /\ outcome' = "running"
          /\ keys' = Keys(lidar_map)
          /\ graph' = BuildGraph(lidar_map, Keys(lidar_map))
          /\ edge_weights' =
               BuildWeights(Keys(lidar_map), BuildGraph(lidar_map, Keys(lidar_map)))
  /\ UNCHANGED <<call_args, lidar_map, starting_point, ending_point, path,
                 distances, predecessor, pass, edge, changes, handler_vars>>

\* only the starting point is looked up
EndpointsInKeysStartOnly(ks, s, e) == InKeys(ks, s)

\* not (starting_point not in keys or ending_point not in keys)
EndpointsInKeys(ks, s, e) == ~(~InKeys(ks, s) \/ ~InKeys(ks, e))

start_index == key_to_index(keys, starting_point)
end_index == key_to_index(keys, ending_point)

\* __bellman_ford up to the call of __relax_edges, and the entry of its loops
BellmanFordEnter ==
  /\ pc = "bellman_ford"
  /\ IF ~EndpointsInKeys(keys, starting_point, ending_point)
     THEN /\ pc' = "idle"
          /\ outcome' = "ValueError: Starting or ending point is not in the lidar map"
          /\ NoLocals
     ELSE /\ distances' = InitDistances(graph, start_index)
          /\ predecessor' = InitPredecessor(graph)
          /\ pass' = 0
          /\ edge' = 1
          /\ pc' = IF NumPasses(graph) > 0 /\ EdgeOrder(graph) # <<>>
                   THEN "relax" ELSE "relaxed"
          /\ UNCHANGED <<graph, keys, edge_weights, outcome>>
  /\ UNCHANGED <<call_args, lidar_map, starting_point, ending_point, path,
                 result, changes, handler_vars>>

\* one iteration of the innermost loop of __relax_edges
RelaxEdge ==
  /\ pc = "relax"
  /\ LET order == EdgeOrder(graph)
         u == order[edge][1]
         v == order[edge][2]
     IN /\ distances' = RelaxDistances(edge_weights, distances, u, v)
        /\ predecessor' = RelaxPredecessor(edge_weights, distances, predecessor, u, v)
        /\ IF edge < Len(order)
           THEN /\ edge' = edge + 1
                /\ UNCHANGED <<pass, pc>>
           ELSE IF pass + 1 < NumPasses(graph)
           THEN /\ edge' = 1
                /\ pass' = pass + 1
                /\ UNCHANGED pc
           ELSE /\ pc' = "relaxed"
                /\ UNCHANGED <<pass, edge>>
  /\ UNCHANGED <<call_args, lidar_map, starting_point, ending_point, path,
                 graph, keys, edge_weights, outcome, result, changes,
                 handler_vars>>

\* the value of [keys[idx] for idx in path_indices]
CellsOf(ks, path_indices) ==
  [i \in 1..Len(path_indices) |-> KeyAt(ks, path_indices[i])]

\* an unreachable end raises instead of returning []
bellman_ford_tail_raising(ks, d, p, s, e) ==
  LET walk == reconstruct_path(p, s, e)
  IN IF d[e] = Inf \/ ~walk.ended \/ walk.value = <<>>
     THEN [ends |-> "ValueError: no path", value |-> <<>>, stores |-> FALSE]
     ELSE [ends |-> "returned", value |-> CellsOf(ks, walk.value), stores |-> TRUE]

\* Lines 96-108 of __bellman_ford: how the call ends ("returned", or "hung"
\* inside __reconstruct_path), the value returned, and whether self.path is
\* assigned that value.
bellman_ford_tail(ks, d, p, s, e) ==
  LET walk == reconstruct_path(p, s, e)
  IN IF d[e] = Inf
     THEN [ends |-> "returned", value |-> <<>>, stores |-> FALSE]
     ELSE IF ~walk.ended
     THEN [ends |-> "hung", value |-> <<>>, stores |-> FALSE]
     ELSE IF walk.value = <<>>
     THEN [ends |-> "returned", value |-> <<>>, stores |-> FALSE]
     ELSE [ends |-> "returned", value |-> CellsOf(ks, walk.value), stores |-> TRUE]

\* __bellman_ford after __relax_edges, and the return of find_path
BellmanFordExit ==
  /\ pc = "relaxed"
  /\ LET tail == bellman_ford_tail(keys, distances, predecessor,
                                   start_index, end_index)
     IN /\ pc' = IF tail.ends = "hung" THEN "hung" ELSE "idle"
        /\ outcome' = tail.ends
        /\ result' = tail.value
        /\ path' = IF tail.stores THEN tail.value ELSE path
  /\ NoLocals
  /\ UNCHANGED <<call_args, lidar_map, starting_point, ending_point, changes,
                 handler_vars>>

\* the caller assigns lidar_map[x][y] = val between two calls
SetCell ==
  /\ pc = "idle"
  /\ changes < MaxChanges
  /\ \E x \in 0..(NumRows(lidar_map) - 1), y \in 0..(NumCols(lidar_map) - 1),
        val \in {0, 1} :
       /\ CellAt(lidar_map, x, y) # val
       /\ lidar_map' = [lidar_map EXCEPT ![x + 1][y + 1] = val]
  /\ changes' = changes + 1
  /\ UNCHANGED <<call_args, starting_point, ending_point, path, pc, graph, keys,
                 edge_weights, distances, predecessor, pass, edge, outcome,
                 result, handler_vars>>

\* the caller assigns starting_point between two calls
SetStart ==
  /\ pc = "idle"
  /\ changes < MaxChanges
  /\ \E c \in Points :
       /\ c # starting_point
       /\ starting_point' = c
  /\ changes' = changes + 1
  /\ UNCHANGED <<call_args, lidar_map, ending_point, path, pc, graph, keys,
                 edge_weights, distances, predecessor, pass, edge, outcome,
                 result, handler_vars>>

\* the caller assigns ending_point between two calls
SetEnd ==
  /\ pc = "idle"
  /\ changes < MaxChanges
  /\ \E c \in Points :
       /\ c # ending_point
       /\ ending_point' = c
  /\ changes' = changes + 1
  /\ UNCHANGED <<call_args, lidar_map, starting_point, path, pc, graph, keys,
                 edge_weights, distances, predecessor, pass, edge, outcome,
                 result, handler_vars>>

----------------------------------------------------------------------------
(* UpdateOutputHandler.  A command or pin is named by its CommandArray     *)
(* constant; the constants are pairwise distinct.                          *)

\* self._pins
Pins == <<"GO_FORWARD", "GO_LEFT", "GO_RIGHT", "GO_BACKWARD">>

PinSet == {Pins[i] : i \in 1..Len(Pins)}

\* values passed as command: the pins, STOP, and values that are neither
Commands == PinSet \cup {"STOP", "UNKNOWN_1", "UNKNOWN_2"}

\* GPIO.output(channels, values): each listed channel takes its value
GpioOutput(levels, channels, values) ==
  [p \in DOMAIN levels |->
     IF \E i \in 1..Len(channels) : channels[i] = p
     THEN values[CHOOSE i \in 1..Len(channels) :
                   /\ channels[i] = p
                   /\ \A j \in (i + 1)..Len(channels) : channels[j] # p]
     ELSE levels[p]]

\* list(pin_states.values()) as passed to GPIO.output by update_output
PinStates(command) ==
  [i \in 1..Len(Pins) |->
     IF command \in PinSet /\ Pins[i] = command THEN "HIGH" ELSE "LOW"]

\* only the commanded pin is written
update_output_one_pin(levels, command) ==
  IF command \in PinSet
  THEN GpioOutput(levels, <<command>>, <<"HIGH">>)
  ELSE GpioOutput(levels, Pins, PinStates(command))

\* the levels after update_output(command)
update_output(levels, command) == GpioOutput(levels, Pins, PinStates(command))

InitHandler ==
  /\ hpc = "none"
  /\ gpio_mode = "unset"
  /\ pin_dir = [p \in PinSet |-> "unset"]
  /\ pin_level = [p \in PinSet |-> "unset"]
  /\ diag = ""
  /\ issued = <<>>

\* UpdateOutputHandler.__init__
HandlerInit ==
  /\ hpc = "none"
  /\ hpc' = "live"
  /\ gpio_mode' = "BOARD"
  /\ pin_dir' = [p \in PinSet |-> "OUT"]
  /\ pin_level' = GpioOutput(pin_level, Pins, [i \in 1..Len(Pins) |-> "LOW"])
  /\ UNCHANGED <<diag, issued, planner_vars>>

\* UpdateOutputHandler.update_output
UpdateOutput ==
  /\ hpc = "live"
  /\ Len(issued) < MaxCmds
  /\ \E command \in Commands :
       /\ pin_level' = update_output(pin_level, command)
       /\ diag' = IF command \notin PinSet /\ command # "STOP"
                  THEN "Invalid command" ELSE diag
       /\ issued' = Append(issued, command)
  /\ UNCHANGED <<hpc, gpio_mode, pin_dir, planner_vars>>

\* UpdateOutputHandler.__del__
HandlerDel ==
  /\ hpc = "live"
  /\ hpc' = "deleted"
  /\ gpio_mode' = "unset"
  /\ pin_dir' = [p \in PinSet |-> "unset"]
  /\ pin_level' = [p \in PinSet |-> "unset"]
  /\ UNCHANGED <<diag, issued, planner_vars>>

----------------------------------------------------------------------------
(* Specifications.                                                         *)

Init == InitPlanner /\ InitHandler

Next ==
  \/ Construct
  \/ CreateGraph
  \/ BellmanFordEnter
  \/ RelaxEdge
  \/ BellmanFordExit

\* one RoadFinder, any number of find_path calls, attributes left alone
Spec == Init /\ [][Next]_vars

NextCalls ==
  \/ Next
  \/ SetCell
  \/ SetStart
  \/ SetEnd

\* one RoadFinder whose attributes the caller changes between calls
SpecCalls == Init /\ [][NextCalls]_vars

InitScen == call_args \in Scenarios /\ Init

\* the calls of test_road_finder
SpecScen == InitScen /\ [][Next]_vars

InitOut == call_args = <<[other |-> 0], <<0, 0>>, <<0, 0>>>> /\ Init

NextOut ==
  \/ HandlerInit
  \/ UpdateOutput
  \/ HandlerDel

\* one UpdateOutputHandler
SpecOut == InitOut /\ [][NextOut]_vars

----------------------------------------------------------------------------
(* Notions the properties are stated with.  They are defined on the grid   *)
(* itself, not on the graph the planner builds.                            *)

InBounds(m, c) ==
  0 <= c[1] /\ c[1] < NumRows(m) /\ 0 <= c[2] /\ c[2] < NumCols(m)

FreeCell(m, c) == InBounds(m, c) /\ CellAt(m, c[1], c[2]) = 0

FreeCells(m) ==
  {c \in (0..(NumRows(m) - 1)) \X (0..(NumCols(m) - 1)) : FreeCell(m, c)}

\* two distinct cells that differ by at most 1 in each coordinate
Adjacent8(a, b) == a # b /\ Abs(a[1] - b[1]) <= 1 /\ Abs(a[2] - b[2]) <= 1

RECURSIVE Reach(_, _)
Reach(m, S) ==
  LET T == S \cup {c \in FreeCells(m) : \E a \in S : Adjacent8(a, c)}
  IN IF T = S THEN S ELSE Reach(m, T)

\* a and b are free cells joined by an 8-connected chain of free cells
Connected8(m, a, b) == FreeCell(m, a) /\ FreeCell(m, b) /\ b \in Reach(m, {a})

\* 1 per axis-aligned step, sqrt(2) per diagonal step
StepCost(a, b) == IF a[1] = b[1] \/ a[2] = b[2] THEN One ELSE Sqrt2

\* the weights of the first n - 1 steps of r, summed from left to right
RECURSIVE RouteCost(_, _)
RouteCost(r, n) ==
  IF n <= 1 THEN Zero ELSE FAdd(RouteCost(r, n - 1), StepCost(r[n - 1], r[n]))

\* r leads from a to b and every step joins two adjacent free cells
ValidRoute(m, r, a, b) ==
  /\ Len(r) > 0
  /\ r[1] = a
  /\ r[Len(r)] = b
  /\ \A i \in 1..(Len(r) - 1) :
       FreeCell(m, r[i]) /\ FreeCell(m, r[i + 1]) /\ Adjacent8(r[i], r[i + 1])

\* a find_path call has been made and is over
CallEnded == pc \in {"idle", "hung"} /\ outcome \notin {"none", "running"}

\* the relaxation is running or has just finished
Relaxing == pc \in {"relax", "relaxed"}

\* what lines 96-108 are about to return
Returning == bellman_ford_tail(keys, distances, predecessor, start_index, end_index)

----------------------------------------------------------------------------
(* Properties.                                                             *)

\* C1: when start and end are free cells joined through free cells under
\* 8-connectivity, the call returns a non-empty sequence that begins with
\* start, ends with end, and whose consecutive cells are distinct free
\* in-bounds cells differing by at most 1 in each coordinate.
C1_ConnectedGivesRoute ==
  (CallEnded /\ Connected8(lidar_map, starting_point, ending_point))
    => /\ outcome = "returned"
       /\ ValidRoute(lidar_map, result, starting_point, ending_point)

\* C1 witness: a route of at least three cells with a diagonal step was returned
C1_Witness ==
  /\ CallEnded
  /\ Connected8(lidar_map, starting_point, ending_point)
  /\ Len(result) >= 3
  /\ \E i \in 1..(Len(result) - 1) : StepCost(result[i], result[i + 1]) = Sqrt2

\* C2: when the call is about to return a non-empty path, the weights of its
\* steps (1 axis-aligned, sqrt(2) diagonal) summed along the path equal
\* distances[end_index], and every vertex v after the first on the path has
\* distances[v] = distances[predecessor[v]] + weight(predecessor[v], v).
C2_PathCostIsDistance ==
  (pc = "relaxed" /\ Returning.value # <<>>)
    => /\ RouteCost(Returning.value, Len(Returning.value)) = distances[end_index]
       /\ \A i \in 2..Len(Returning.value) :
            LET v == key_to_index(keys, Returning.value[i])
                u == key_to_index(keys, Returning.value[i - 1])
            IN /\ predecessor[v] = u
               /\ distances[v] =
                    FAdd(distances[u], StepCost(Returning.value[i - 1], Returning.value[i]))

\* C2 witness: the path about to be returned mixes axis-aligned and diagonal steps
C2_Witness ==
  /\ pc = "relaxed"
  /\ Len(Returning.value) >= 3
  /\ \E i \in 1..(Len(Returning.value) - 1) :
       StepCost(Returning.value[i], Returning.value[i + 1]) = Sqrt2
  /\ \E i \in 1..(Len(Returning.value) - 1) :
       StepCost(Returning.value[i], Returning.value[i + 1]) = One

\* C3: when start and end are free cells that no 8-connected chain of free
\* cells joins, the call returns the empty sequence and raises nothing.
C3_SeparatedGivesEmpty ==
  (/\ CallEnded
   /\ FreeCell(lidar_map, starting_point)
   /\ FreeCell(lidar_map, ending_point)
   /\ ~Connected8(lidar_map, starting_point, ending_point))
    => outcome = "returned" /\ result = <<>>

\* C3 witness: a call on two free cells separated by blocked cells is over
C3_Witness ==
  /\ CallEnded
  /\ FreeCell(lidar_map, starting_point)
  /\ FreeCell(lidar_map, ending_point)
  /\ ~Connected8(lidar_map, starting_point, ending_point)
  /\ \E c \in FreeCells(lidar_map) :
       c # starting_point /\ Connected8(lidar_map, starting_point, c)

\* start and end are both in bounds and on free cells
EndpointsValid ==
  FreeCell(lidar_map, starting_point) /\ FreeCell(lidar_map, ending_point)

\* C4 as stated: a RoadFinder never exists with a start or end that is out of
\* bounds or on a blocked cell, the constructor having refused it.
C4_ValidatedAtConstruction ==
  pc \in {"idle", "bellman_ford", "relax", "relaxed"} => EndpointsValid

\* C4 amended: an invalid start or end passes the constructor and is refused
\* by find_path, which raises ValueError before the relaxation is entered.
C4_ValidatedInFindPath ==
  /\ Relaxing => EndpointsValid
  /\ (CallEnded /\ ~EndpointsValid)
       => outcome \in {"ValueError: Starting or ending point is not in the lidar map",
                       "ValueError: No valid path in the lidar map"}

\* C4 witness: a constructed planner with an out-of-bounds end has had its
\* find_path call refused
C4_Witness ==
  /\ CallEnded
  /\ FreeCell(lidar_map, starting_point)
  /\ ~InBounds(lidar_map, ending_point)
  /\ outcome = "ValueError: Starting or ending point is not in the lidar map"

\* the grids of the three calls of test_road_finder
GridA == << <<0, 0, 0, 0>>, <<0, 1, 1, 0>>, <<0, 0, 0, 0>> >>
GridB == << <<0, 0, 0>>, <<0, 1, 1>>, <<0, 0, 0>> >>
GridC == << <<0, 1, 0>>, <<0, 0, 0>>, <<0, 0, 0>> >>

\* the other route of grid A named by the claim
OtherRouteA == << <<0, 0>>, <<1, 0>>, <<2, 1>>, <<2, 2>>, <<2, 3>> >>

\* C5: the three calls of test_road_finder return exactly
\* [(0,0),(0,1),(0,2),(1,3),(2,3)], [(0,0),(1,0),(2,1),(2,2)] and
\* [(0,0),(1,1),(2,2)]; on the first grid the route
\* [(0,0),(1,0),(2,1),(2,2),(2,3)] is a route of the same cost.
C5_ScenarioPaths ==
  CallEnded
    => /\ outcome = "returned"
       /\ lidar_map = GridA
            => /\ result = << <<0, 0>>, <<0, 1>>, <<0, 2>>, <<1, 3>>, <<2, 3>> >>
               /\ ValidRoute(lidar_map, OtherRouteA, starting_point, ending_point)
               /\ RouteCost(OtherRouteA, Len(OtherRouteA)) =
                    RouteCost(result, Len(result))
       /\ lidar_map = GridB
            => result = << <<0, 0>>, <<1, 0>>, <<2, 1>>, <<2, 2>> >>
       /\ lidar_map = GridC
            => result = << <<0, 0>>, <<1, 1>>, <<2, 2>> >>

\* C5 witness: the call on the first grid, from (0,0) to (2,3), is over
C5_Witness ==
  /\ CallEnded
  /\ lidar_map = GridA
  /\ starting_point = <<0, 0>>
  /\ ending_point = <<2, 3>>
  /\ Len(result) = 5

\* the pins that are high
HighPins == {p \in PinSet : pin_level[p] = "HIGH"}

\* C6: while the handler lives, all four lines are low after construction;
\* after an update_output call exactly the commanded line is high when the
\* command is one of the four directions, and no line is high when it is STOP
\* or unrecognized; hence at most one line is ever high.
C6_OneLineHigh ==
  hpc = "live"
    => /\ \A p \in PinSet : pin_level[p] \in {"LOW", "HIGH"}
       /\ Cardinality(HighPins) <= 1
       /\ issued = <<>> => HighPins = {}
       /\ issued # <<>> =>
            LET command == issued[Len(issued)]
            IN IF command \in {"GO_FORWARD", "GO_LEFT", "GO_RIGHT", "GO_BACKWARD"}
               THEN HighPins = {command}
               ELSE HighPins = {}

\* C6 witness: two different direction commands in a row, then the second is high
C6_Witness ==
  /\ hpc = "live"
  /\ Len(issued) >= 2
  /\ issued[Len(issued)] \in PinSet
  /\ issued[Len(issued) - 1] \in PinSet
  /\ issued[Len(issued)] # issued[Len(issued) - 1]
  /\ HighPins = {issued[Len(issued)]}

\* the offset order named by the claim
OffsetOrder ==
  << <<-1, 0>>, <<1, 0>>, <<0, -1>>, <<0, 1>>,
     <<-1, -1>>, <<-1, 1>>, <<1, -1>>, <<1, 1>> >>

OffsetRank(a, b) ==
  CHOOSE k \in 1..Len(OffsetOrder) : OffsetOrder[k] = <<b[1] - a[1], b[2] - a[2]>>

\* a precedes b in row-major order
RowMajorBefore(a, b) == a[1] < b[1] \/ (a[1] = b[1] /\ a[2] < b[2])

\* the graph of the current call exists
GraphBuilt == pc \in {"bellman_ford", "relax", "relaxed"}

\* C7: the vertices are the free cells numbered in row-major order; u -> v is
\* an edge exactly when u and v are distinct free in-bounds cells differing by
\* at most 1 in each coordinate (whatever the corner cells hold), weighing 1
\* when axis-aligned and sqrt(2) when diagonal; each adjacency list follows
\* the offset order (-1,0),(1,0),(0,-1),(0,1),(-1,-1),(-1,1),(1,-1),(1,1).
C7_GraphShape ==
  GraphBuilt
    => /\ {keys[i] : i \in 1..Len(keys)} = FreeCells(lidar_map)
       /\ \A i, j \in 1..Len(keys) : i < j => RowMajorBefore(keys[i], keys[j])
       /\ DOMAIN graph = 0..(Len(keys) - 1)
       /\ \A u, v \in DOMAIN graph :
            (\E i \in 1..Len(graph[u]) : graph[u][i] = v)
              <=> Adjacent8(KeyAt(keys, u), KeyAt(keys, v))
       /\ DOMAIN edge_weights =
            {uv \in (DOMAIN graph) \X (DOMAIN graph) :
               Adjacent8(KeyAt(keys, uv[1]), KeyAt(keys, uv[2]))}
       /\ \A uv \in DOMAIN edge_weights :
            edge_weights[uv] = StepCost(KeyAt(keys, uv[1]), KeyAt(keys, uv[2]))
       /\ \A u \in DOMAIN graph : \A i, j \in 1..Len(graph[u]) :
            i < j => OffsetRank(KeyAt(keys, u), KeyAt(keys, graph[u][i]))
                       < OffsetRank(KeyAt(keys, u), KeyAt(keys, graph[u][j]))

\* C7 witness: a diagonal edge whose two corner cells are both blocked
C7_Witness ==
  /\ GraphBuilt
  /\ \E uv \in DOMAIN edge_weights :
       LET a == KeyAt(keys, uv[1])
           b == KeyAt(keys, uv[2])
       IN /\ edge_weights[uv] = Sqrt2
          /\ CellAt(lidar_map, a[1], b[2]) = 1
          /\ CellAt(lidar_map, b[1], a[2]) = 1

\* the least element of a non-empty set of doubles
FMin(S) == CHOOSE x \in S : \A y \in S : ~FLess(y, x)

\* the least cost, summed from the start, of a route of the built graph that
\* continues a route of cost so far ending in cur to target without entering
\* a visited vertex; Inf when there is none
RECURSIVE BestRoute(_, _, _, _, _)
BestRoute(w, cur, target, visited, cost) ==
  IF cur = target THEN cost
  ELSE LET nxt == {v \in DOMAIN graph : <<cur, v>> \in DOMAIN w /\ v \notin visited}
       IN IF nxt = {} THEN Inf
          ELSE FMin({BestRoute(w, v, target, visited \cup {v},
                               FAdd(cost, w[<<cur, v>>])) : v \in nxt})

\* C8: after the passes of __relax_edges, distances[v] is the least total edge
\* weight over the routes from start to v in the built graph, infinite exactly
\* for the vertices that cannot be reached from start, and no edge can still
\* be relaxed.
C8_DistancesAreShortest ==
  pc = "relaxed"
    => /\ \A v \in DOMAIN graph :
            /\ distances[v] =
                 BestRoute(edge_weights, start_index, v, {start_index}, Zero)
            /\ distances[v] = Inf
                 <=> ~Connected8(lidar_map, starting_point, KeyAt(keys, v))
       /\ \A uv \in DOMAIN edge_weights :
            ~FLess(FAdd(distances[uv[1]], edge_weights[uv]), distances[uv[2]])

\* C8 witness: the relaxation is over with a vertex two or more steps away
\* whose index is below the start's, which one pass does not settle
C8_Witness ==
  /\ pc = "relaxed"
  /\ \E v \in DOMAIN graph :
       /\ v < start_index
       /\ distances[v] # Inf
       /\ ~FLess(distances[v], FAdd(One, One))

\* C9 as stated: after a find_path call has returned, the stored path is the
\* value that call returned.
C9_StoredPathIsLastResult ==
  (pc = "idle" /\ outcome = "returned") => path = result

\* following predecessor links from v meets -1 within n links
RECURSIVE ChainEnds(_, _, _)
ChainEnds(p, v, n) ==
  IF v = -1 THEN TRUE
  ELSE IF n = 0 THEN FALSE
  ELSE ChainEnds(p, p[v], n - 1)

\* iterations of the while loop of __reconstruct_path from cur, -1 when more
\* than fuel are needed
RECURSIVE WalkSteps(_, _, _, _)
WalkSteps(p, s, cur, fuel) ==
  IF cur = s THEN 0
  ELSE IF fuel = 0 THEN -1
  ELSE IF p[cur] = -1 THEN 1
  ELSE LET rest == WalkSteps(p, s, p[cur], fuel - 1)
       IN IF rest = -1 THEN -1 ELSE rest + 1

\* C10: no call hangs; during and after the relaxation predecessor[start] is
\* -1, the predecessor links hold no cycle, the backward walk from end stops
\* within (vertex count - 1) iterations, and it reaches start whenever
\* distances[end] is finite.
C10_WalkTerminates ==
  /\ pc # "hung"
  /\ Relaxing
       => /\ predecessor[start_index] = -1
          /\ \A v \in DOMAIN graph :
               ChainEnds(predecessor, v, NumVertices(graph))
          /\ WalkSteps(predecessor, start_index, end_index,
                       NumVertices(graph) - 1) >= 0
          /\ distances[end_index] # Inf
               => LET walk == reconstruct_path(predecessor, start_index, end_index)
                  IN /\ walk.ended
                     /\ walk.value # <<>>
                     /\ walk.value[1] = start_index

\* C10 witness: in the middle of the relaxation the walk from end takes all of
\* its (vertex count - 1) iterations, over at least two links
C10_Witness ==
  /\ pc = "relax"
  /\ NumVertices(graph) >= 3
  /\ distances[end_index] # Inf
  /\ WalkSteps(predecessor, start_index, end_index, NumVertices(graph) - 1)
       = NumVertices(graph) - 1

====
